---- MODULE Spec2Model ----
(***************************************************************************)
(* A model of the HPO problem wrapper and the HPO fitness monitor of        *)
(* src/src/problems/hpo_wrapper.py, and of GenesisProblem's evaluation loop *)
(* (neuroevolution/genesis.py) with the Hover environment (Genv/hover.py).  *)
(*                                                                          *)
(* Tensors are small integers; +infinity is the sentinel Inf, larger than   *)
(* every fitness the modelled workflow can produce.  A batched tensor is a  *)
(* tuple with one element per HPO instance.  Objects (nn.Parameter and      *)
(* nn.Buffer instances) are numbered, so that identity (`is`) and equality  *)
(* of contents are different relations.                                     *)
(***************************************************************************)
EXTENDS Integers, Sequences, FiniteSets, TLC

\* ---------------------------------------------------------------- bounds
MaxIter == 3          \* largest `iterations` handed to the constructor
MaxInst == 2          \* largest `num_instances` handed to the constructor
MaxHP == 2            \* hyperparameter values are 1..MaxHP
MaxTells == 3         \* pre_tell calls per behaviour of the monitor
MaxFit == 4           \* finite fitness elements handed to pre_tell are 0..MaxFit
MaxVec == 2           \* longest fitness vector handed to pre_tell
MaxEnvs == 2          \* largest pop_size * num_episodes of a GenesisProblem
MaxEpisodeLength == 2 \* largest max_episode_length of a GenesisProblem
HoverEpisodeLength == 1   \* HoverEnv.max_episode_length (1500 steps), scaled down

\* ------------------------------------------------------------- constants
Inf == 99             \* torch.inf
PopMod == 5           \* the modelled algorithm keeps its population in 0..PopMod-1

Min2(a, b) == IF a <= b THEN a ELSE b

RECURSIVE SeqMin(_)
SeqMin(s) == IF Len(s) = 1 THEN s[1] ELSE Min2(s[1], SeqMin(Tail(s)))

\* ------------------------------------------------ the workflow's objects
\* 1: the algorithm's hyperparameter (nn.Parameter)   2: its population
\* 3: the monitor's best_fitness buffer               4: the monitor's aux buffer
\* 5: an algorithm buffer with the same contents as 3, a different object
Heap ==
    (1 :> [kind |-> "Parameter", val |-> 1]) @@
    (2 :> [kind |-> "Buffer", val |-> 0]) @@
    (3 :> [kind |-> "Buffer", val |-> Inf]) @@
    (4 :> [kind |-> "Buffer", val |-> 0]) @@
    (5 :> [kind |-> "Buffer", val |-> Inf])

\* iteration order of the workflow state dictionary and of the monitor's
KeyOrder == << "algorithm.hp", "algorithm.pop", "algorithm.shadow",
               "monitor.best_fitness", "monitor.aux" >>
MonOrder == << "best_fitness", "aux" >>

\* the workflow state snapshots use_state(...).init_state(clone=False) can return
WfStates ==
    { f \in UNION { [D -> 1..5] : D \in SUBSET { KeyOrder[i] : i \in 1..Len(KeyOrder) } } :
        /\ "algorithm.hp" \in DOMAIN f /\ f["algorithm.hp"] = 1
        /\ "algorithm.pop" \in DOMAIN f /\ f["algorithm.pop"] = 2
        /\ "algorithm.shadow" \in DOMAIN f => f["algorithm.shadow"] \in {3, 4, 5}
        /\ "monitor.best_fitness" \in DOMAIN f => f["monitor.best_fitness"] = 3
        /\ "monitor.aux" \in DOMAIN f => f["monitor.aux"] = 4 }

\* the monitor's state_dict(keep_vars=True)
MonStates ==
    { [a \in {"best_fitness"} |-> 3],
      [a \in {"best_fitness", "aux"} |-> IF a = "best_fitness" THEN 3 ELSE 4] }

MonitorKinds == { "HPOFitnessMonitor", "DuckMonitor", "PlainMonitor" }

IsHPOMonitor(kind) == kind = "HPOFitnessMonitor"
ExposesTellFitness(kind) == kind \in { "HPOFitnessMonitor", "DuckMonitor" }

\* ------------------------------------------------- HPOFitnessMonitor
\* a fitness tensor: ndim and, for ndim = 1, its elements
PreTellBestNoRunningMin(best, fitness) ==
    IF fitness.ndim = 1 THEN SeqMin(fitness.elems) ELSE best

PreTellBestAnyNdim(best, fitness) == Min2(SeqMin(fitness.elems), best)

PreTellBest(best, fitness) ==
    IF fitness.ndim = 1 THEN Min2(SeqMin(fitness.elems), best) ELSE best

\* ------------------------------------------ the workflow's step procedures
\* One generation of the deterministic workflow on a single-instance state:
\* the population is replaced by a fixed transform of the hyperparameter, the
\* problem evaluates x^2, the monitor is told the fitness vector.
Fit(pop) == pop * pop

Generation(s, pop) ==
    [k \in DOMAIN s |->
        CASE k = "algorithm.pop" -> pop
          [] k = "monitor.best_fitness" ->
                PreTellBest(s[k], [ndim |-> 1, elems |-> << Fit(pop) >>])
          [] k = "monitor.aux" -> s[k] + 1
          [] OTHER -> s[k]]

WorkflowStep(s) ==
    Generation(s, (2 * s["algorithm.pop"] + s["algorithm.hp"]) % PopMod)

WorkflowInitStep(s) ==
    Generation(s, (s["algorithm.hp"] + 2) % PopMod)

\* use_state: the traced procedure as a pure function of the state
StateFn(proc, s) ==
    IF proc = "init_step" THEN WorkflowInitStep(s) ELSE WorkflowStep(s)

\* vmap: the batched state's slice of instance i, and the lifted function
Slice(bs, i) == [k \in DOMAIN bs |-> bs[k].val[i]]

VmapApply(proc, bs, n) ==
    [k \in DOMAIN bs |->
        [kind |-> bs[k].kind,
         val |-> [i \in 1..n |-> StateFn(proc, Slice(bs, i))[k]]]]

\* vmap(...).init_state(n): n independent replicas of the live snapshot
VmapInitState(wf, n) ==
    [k \in DOMAIN wf |->
        [kind |-> Heap[wf[k]].kind, val |-> [i \in 1..n |-> Heap[wf[k]].val]]]

\* ------------------------------------------------------ the monitor object
\* a live attribute of the monitor: the object bound to it (0 for a tensor
\* that is no object of the workflow) and its contents
LiveAttr(obj) == [obj |-> obj, val |-> << Heap[obj].val >>]

MonitorStateDict(mon) == [a \in DOMAIN mon |-> LiveAttr(mon[a])]

\* Module.load_state_dict: every supplied entry is installed under its
\* attribute, the other attributes are left as they are
LoadStateDict(live, sd) ==
    [a \in DOMAIN live |-> IF a \in DOMAIN sd THEN sd[a] ELSE live[a]]

\* HPOFitnessMonitor.tell_fitness
TellFitnessBatchMin(live) == << SeqMin(live["best_fitness"].val) >>

TellFitness(live) == live["best_fitness"].val

\* ------------------------------------------------ monitor state-key resolver
\* `sv is v`
EqualContents(sv, v) == Heap[sv].val = Heap[v].val

SameObject(sv, v) == sv = v

\* the inner loop: the first monitor entry that is the object v ("" if none)
RECURSIVE FirstMatch(_, _, _)
FirstMatch(mon, v, j) ==
    IF j > Len(MonOrder) THEN ""
    ELSE IF MonOrder[j] \in DOMAIN mon /\ SameObject(mon[MonOrder[j]], v)
         THEN MonOrder[j]
         ELSE FirstMatch(mon, v, j + 1)

\* the outer loop: monitor_keys
ResolveMonitorKeys(wf, mon) ==
    [k \in { q \in DOMAIN wf : FirstMatch(mon, wf[q], 1) # "" } |->
        FirstMatch(mon, wf[k], 1)]

KeyIndex(k) == CHOOSE i \in 1..Len(KeyOrder) : KeyOrder[i] = k

\* {sk: x[k] for k, sk in monitor_keys.items()}: the last key of a monitor
\* attribute wins
FinalMonitorState(mk, x) ==
    [sk \in { mk[k] : k \in DOMAIN mk } |->
        LET ks == { k \in DOMAIN mk : mk[k] = sk }
            last == CHOOSE k \in ks : \A q \in ks : KeyIndex(q) <= KeyIndex(k)
        IN  [obj |-> 0, val |-> x[last].val]]

\* get_monitor_fitness: the monitor after load_state_dict, and what it returns
GetMonitorFitnessLoad(mk, live, x) == LoadStateDict(live, FinalMonitorState(mk, x))

GetMonitorFitness(mk, live, x) == TellFitness(GetMonitorFitnessLoad(mk, live, x))

\* extract_parameters
ExtractParametersAll(st) == st

ExtractParameters(st) ==
    [k \in { q \in DOMAIN st : st[q].kind = "Parameter" } |-> st[k]]

\* ---------------------------------------------------------------- state
VARIABLES
    wfState,            \* the workflow's state snapshot: key -> object
    monState,           \* the monitor's state dictionary: attribute -> object
    monitorKind,        \* the class of workflow.get_submodule("monitor")
    hasInitStep,        \* type(workflow).init_step is not Workflow.init_step
    monLive,            \* the monitor's live attributes
    phase,              \* the wrapper's lifecycle and evaluate's position
    iterations,
    num_instances,
    workflow_attr,      \* self.workflow has been set
    init_state,         \* self.init_state (<<>> while unset)
    monitor_keys,       \* the key map captured by get_monitor_fitness
    workflow_step,      \* self._workflow_step_: the procedure it compiles
    workflow_init_step, \* self._workflow_init_step_
    err,                \* the last error raised
    hyper,              \* evaluate's argument
    state,              \* evaluate's local `state`
    it,                 \* steps applied by the running evaluate
    fitness,            \* the last value evaluate returned
    applied,            \* history: the step applications of the last evaluate
    startState,         \* history: the state handed to the first step
    setupLive,          \* history: monLive when setup returned
    setupInit,          \* history: init_state when setup returned
    traced,             \* history: procedures handed to use_state
    compiled,           \* history: functions handed to jit
    ctor_args,          \* history: the arguments of the last HPOProblemWrapper(...)
    otherBefore,        \* history: an earlier evaluate ran with other hyperparameters
    m_phase,            \* the stand-alone HPOFitnessMonitor's lifecycle
    m_indicator,        \* self.multi_obj_indicator
    best_fitness,       \* self.best_fitness
    m_err,
    m_tells,            \* pre_tell calls so far
    m_single,           \* history: a single-objective pre_tell has happened
    m_minSeen,          \* history: least element of the single-objective tells
    m_told,             \* history: the last value tell_fitness returned
    m_prevTold,         \* history: the value it returned before that
    m_arg,              \* history: the argument of the last HPOFitnessMonitor(...)
    m_lastNdim,         \* history: fitness.ndim of the last pre_tell
    m_bestBefore,       \* history: best_fitness when the last pre_tell was entered
    task,               \* GenesisProblem: the task name of self.env
    pop_size,           \* self.pop_size
    num_episodes,       \* self.num_episodes
    max_episode_length, \* self.max_episode_length
    g_pc,               \* position of the running _evaluate_gene call
    counter,            \* _evaluate_gene's locals
    done_array,
    total_reward,
    rewards,            \* what the last _evaluate_gene returned
    env_done,           \* HoverEnv: self.done
    episode_length_buf, \* HoverEnv: self.episode_length_buf
    reset_buf,          \* HoverEnv: self.reset_buf
    time_outs,          \* HoverEnv: self.extras["time_outs"]
    n_reset,            \* history: env.reset calls of this evaluation
    n_step,             \* history: env.step calls of this evaluation
    lastReward,         \* history: the rewards the last env.step returned
    lastDone            \* history: the done flags the last env.step returned

wfVars == << wfState, monState, monitorKind, hasInitStep >>
wrapVars == << phase, iterations, num_instances, workflow_attr, init_state,
               monitor_keys, workflow_step, workflow_init_step, err >>
evalVars == << hyper, state, it, fitness >>
histVars == << applied, startState, setupLive, setupInit, traced, compiled,
              ctor_args, otherBefore >>
monVars == << m_phase, m_indicator, best_fitness, m_err, m_tells, m_single,
              m_minSeen, m_told, m_prevTold, m_arg, m_lastNdim, m_bestBefore >>
genVars == << task, pop_size, num_episodes, max_episode_length, g_pc, counter,
             done_array, total_reward, rewards, env_done, episode_length_buf,
             reset_buf, time_outs, n_reset, n_step, lastReward,
             lastDone >>
vars == << wfVars, monLive, wrapVars, evalVars, histVars, monVars, genVars >>

NoState == << >>

WrapperFresh ==
    /\ phase = "NONE"
    /\ iterations = 0
    /\ num_instances = 0
    /\ workflow_attr = FALSE
    /\ init_state = NoState
    /\ monitor_keys = NoState
    /\ workflow_step = "none"
    /\ workflow_init_step = "none"
    /\ err = "none"
    /\ hyper = NoState
    /\ state = NoState
    /\ it = 0
    /\ fitness = << >>
    /\ applied = << >>
    /\ startState = NoState
    /\ setupLive = NoState
    /\ setupInit = NoState
    /\ traced = {}
    /\ compiled = {}
    /\ ctor_args = << >>
    /\ otherBefore = FALSE

\* no HPOFitnessMonitor(...) call yet
NoArg == [type |-> "unset", chars |-> << >>]

MonitorFresh ==
    /\ m_indicator = [type |-> "None", chars |-> << >>]
    /\ best_fitness = Inf
    /\ m_err = "none"
    /\ m_tells = 0
    /\ m_single = FALSE
    /\ m_minSeen = Inf
    /\ m_told = Inf
    /\ m_prevTold = Inf
    /\ m_arg = NoArg
    /\ m_lastNdim = 0
    /\ m_bestBefore = Inf

MonitorOff ==
    /\ m_phase = "OFF"
    /\ MonitorFresh

\* _evaluate_gene's locals and the history of its calls, before any call
EvaluationFresh ==
    /\ counter = 0
    /\ done_array = << >>
    /\ total_reward = << >>
    /\ rewards = << >>
    /\ n_reset = 0
    /\ n_step = 0
    /\ lastReward = << >>
    /\ lastDone = << >>

GenesisOff ==
    /\ g_pc = "OFF"
    /\ task = "none"
    /\ pop_size = 0
    /\ num_episodes = 0
    /\ max_episode_length = 0
    /\ env_done = << >>
    /\ episode_length_buf = << >>
    /\ reset_buf = << >>
    /\ time_outs = << >>
    /\ EvaluationFresh

\* a workflow that has been set up, and no wrapper yet
Init ==
    /\ wfState \in WfStates
    /\ monState \in MonStates
    /\ monitorKind \in MonitorKinds
    /\ hasInitStep \in BOOLEAN
    /\ monLive = MonitorStateDict(monState)
    /\ WrapperFresh
    /\ MonitorOff
    /\ GenesisOff

\* ------------------------------------------------- HPOProblemWrapper
\* __init__'s two assertions
CtorAcceptsNonNegative(iters, n) == iters >= 0 /\ n >= 0

CtorAccepts(iters, n) == iters > 0 /\ n > 0

WrapperReset ==
    /\ workflow_attr' = FALSE
    /\ init_state' = NoState
    /\ monitor_keys' = NoState
    /\ workflow_step' = "none"
    /\ workflow_init_step' = "none"
    /\ setupLive' = NoState
    /\ setupInit' = NoState
    /\ traced' = {}
    /\ compiled' = {}

\* HPOProblemWrapper(iterations, num_instances)
Construct(iters, n) ==
    /\ phase \in { "NONE", "UNCONFIGURED", "CONFIGURED", "SETUP_FAILED" }
    /\ WrapperReset
    /\ IF CtorAccepts(iters, n)
       THEN /\ phase' = "UNCONFIGURED"
            /\ iterations' = iters
            /\ num_instances' = n
            /\ err' = "none"
       ELSE /\ phase' = "NONE"
            /\ iterations' = 0
            /\ num_instances' = 0
            /\ err' = "ctor"
    /\ hyper' = NoState
    /\ state' = NoState
    /\ it' = 0
    /\ fitness' = << >>
    /\ applied' = << >>
    /\ startState' = NoState
    /\ ctor_args' = << iters, n >>
    /\ otherBefore' = FALSE
    /\ UNCHANGED << wfVars, monLive, monVars, genVars >>

\* isinstance(monitor, HPOMonitor)
MonitorCheckDuckTyped(kind) == ExposesTellFitness(kind)

MonitorCheck(kind) == IsHPOMonitor(kind)

\* len(monitor_keys) == len(monitor_state)
ResolverAssert(mk, monitor_state) ==
    Cardinality(DOMAIN mk) = Cardinality(DOMAIN monitor_state)

\* the procedure compiled into self._workflow_init_step_
FirstStepProcAlwaysStep(has_init_step) == "step"

FirstStepProc(has_init_step) == IF has_init_step THEN "init_step" ELSE "step"

\* monitor.state_dict(keep_vars=True), as attribute -> object
MonitorObjects(live) == [a \in DOMAIN live |-> live[a].obj]

SetupKeys == ResolveMonitorKeys(wfState, MonitorObjects(monLive))

SetupRejectMonitor ==
    /\ ~ MonitorCheck(monitorKind)
    /\ phase' = "SETUP_FAILED"
    /\ err' = "monitor"
    /\ UNCHANGED << monLive, init_state, monitor_keys, workflow_step,
                    workflow_init_step, setupLive, setupInit, traced, compiled >>

SetupRejectResolver ==
    /\ MonitorCheck(monitorKind)
    /\ ~ ResolverAssert(SetupKeys, monLive)
    /\ phase' = "SETUP_FAILED"
    /\ err' = "resolver"
    /\ traced' = { "step" }
    /\ UNCHANGED << monLive, init_state, monitor_keys, workflow_step,
                    workflow_init_step, setupLive, setupInit, compiled >>

SetupDone ==
    /\ MonitorCheck(monitorKind)
    /\ ResolverAssert(SetupKeys, monLive)
    /\ LET monitor_state == monLive
           init == VmapInitState(wfState, num_instances)
           first == FirstStepProc(hasInitStep)
           \* tracing get_monitor_fitness loads the batched state into the
           \* monitor; setup then loads the monitor's own state back
           restored == LoadStateDict(GetMonitorFitnessLoad(SetupKeys, monLive, init),
                                     monitor_state)
       IN  /\ monitor_keys' = SetupKeys
           /\ workflow_step' = "step"
           /\ workflow_init_step' = first
           /\ init_state' = init
           /\ traced' = { "step", first }
           /\ compiled' = { "step", "get_monitor_fitness", first }
           /\ monLive' = restored
           /\ setupLive' = restored
           /\ setupInit' = init
    /\ phase' = "CONFIGURED"
    /\ err' = "none"

\* setup(workflow)
Setup ==
    /\ phase = "UNCONFIGURED"
    /\ workflow_attr' = TRUE
    /\ \/ SetupRejectMonitor
       \/ SetupRejectResolver
       \/ SetupDone
    /\ UNCHANGED << wfVars, iterations, num_instances, evalVars, applied,
                    startState, ctor_args, otherBefore, monVars, genVars >>

\* the hyperparameter mappings a caller hands to evaluate
Ones(n) == [i \in 1..n |-> 1]

HyperInputs(n) ==
    { << >> }
    \cup { ("algorithm.hp" :> [kind |-> kd, val |-> v]) :
              kd \in { "Parameter", "Buffer" }, v \in [1..n -> 1..MaxHP] }
    \cup { ("algorithm.pop" :> [kind |-> kd, val |-> Ones(n)]) :
              kd \in { "Parameter", "Buffer" } }
    \cup { ("algorithm.missing" :> [kind |-> "Parameter", val |-> Ones(n)]) }
    \cup { ("algorithm.hp" :> [kind |-> "Parameter", val |-> Ones(n)]) @@
           ("algorithm.missing" :> [kind |-> "Parameter", val |-> Ones(n)]) }

\* the two assertions of the hyperparameter check, for one entry
HyperEntryOkStoredOnly(st, hp, k) ==
    /\ k \in DOMAIN st
    /\ st[k].kind = "Parameter"

HyperEntryOk(st, hp, k) ==
    /\ k \in DOMAIN st
    /\ st[k].kind = "Parameter" /\ hp[k].kind = "Parameter"

HyperCheck(st, hp) == \A k \in DOMAIN hp : HyperEntryOk(st, hp, k)

\* dict.copy and dict.update
DictCopy(d) == d

DictUpdateKeepStored(d, hp) ==
    [k \in DOMAIN d \cup DOMAIN hp |-> IF k \in DOMAIN d THEN d[k] ELSE hp[k]]

DictUpdate(d, hp) ==
    [k \in DOMAIN d \cup DOMAIN hp |-> IF k \in DOMAIN hp THEN hp[k] ELSE d[k]]

\* self.init_state after `state = self.init_state.copy(); state.update(...)`:
\* the update acts on the copy
StoredAfterAliasedUpdate(st, hp) == DictUpdate(st, hp)

StoredAfterUpdate(st, hp) == st

\* a jit-compiled function: the same outputs as the function it compiles
CompiledStep(proc, bs, n) == VmapApply(proc, bs, n)

CompiledGetMonitorFitness(mk, live, x) == GetMonitorFitness(mk, live, x)

\* the monitor after self._get_monitor_fitness_(state): the compiled function
\* replays the tensor operations of the trace, not load_state_dict
MonitorAfterPythonReadOut(mk, live, x) == GetMonitorFitnessLoad(mk, live, x)

MonitorAfterReadOut(mk, live, x) == live

\* range(self.iterations - 1)
LoopCountOffByOne(iters) == iters

LoopCount(iters) == iters - 1

\* evaluate as a function of the wrapper's configuration and its argument
RECURSIVE Rollout(_, _, _)
Rollout(st, k, n) ==
    IF k <= 0 THEN st ELSE Rollout(CompiledStep("step", st, n), k - 1, n)

EvaluateFn(wf, live, has_init_step, iters, n, hp) ==
    LET init == VmapInitState(wf, n)
        mk == ResolveMonitorKeys(wf, MonitorObjects(live))
        start == DictUpdate(DictCopy(init), hp)
        first == CompiledStep(FirstStepProc(has_init_step), start, n)
    IN  CompiledGetMonitorFitness(mk, live, Rollout(first, LoopCount(iters), n))

\* evaluate, lines 129-138: the check, the clone and the overwrite
EvalBegin(hp) ==
    /\ phase = "CONFIGURED"
    /\ hyper' = hp
    /\ otherBefore' = (otherBefore \/ (Len(applied) > 0 /\ hyper # hp))
    /\ applied' = << >>
    /\ fitness' = << >>
    /\ it' = 0
    /\ IF HyperCheck(init_state, hp)
       THEN /\ state' = DictUpdate(DictCopy(init_state), hp)
            /\ init_state' = StoredAfterUpdate(init_state, hp)
            /\ startState' = state'
            /\ phase' = "FIRST"
            /\ err' = "none"
       ELSE /\ err' = "hyper"
            /\ state' = NoState
            /\ startState' = NoState
            /\ phase' = "CONFIGURED"
            /\ UNCHANGED init_state
    /\ UNCHANGED << wfVars, monLive, iterations, num_instances, workflow_attr,
                    monitor_keys, workflow_step, workflow_init_step,
                    setupLive, setupInit, traced, compiled, ctor_args, monVars,
                    genVars >>

EvalFrame ==
    UNCHANGED << wfVars, iterations, num_instances, workflow_attr, init_state,
                 monitor_keys, workflow_step, workflow_init_step, err, hyper,
                 startState, setupLive, setupInit, traced, compiled, ctor_args,
                 otherBefore, monVars, genVars >>

\* line 139: state = self._workflow_init_step_(state)
EvalFirstStep ==
    /\ phase = "FIRST"
    /\ state' = CompiledStep(workflow_init_step, state, num_instances)
    /\ applied' = Append(applied, [slot |-> "_workflow_init_step_",
                                   fn |-> workflow_init_step,
                                   inp |-> state, out |-> state'])
    /\ phase' = "LOOP"
    /\ UNCHANGED << monLive, it, fitness >>
    /\ EvalFrame

\* lines 140-141: one pass of the loop
EvalLoopStep ==
    /\ phase = "LOOP"
    /\ it < LoopCount(iterations)
    /\ it' = it + 1
    /\ state' = CompiledStep(workflow_step, state, num_instances)
    /\ applied' = Append(applied, [slot |-> "_workflow_step_",
                                   fn |-> workflow_step,
                                   inp |-> state, out |-> state'])
    /\ UNCHANGED << monLive, phase, fitness >>
    /\ EvalFrame

\* line 143: return self._get_monitor_fitness_(state)
EvalReturn ==
    /\ phase = "LOOP"
    /\ ~ (it < LoopCount(iterations))
    /\ fitness' = CompiledGetMonitorFitness(monitor_keys, monLive, state)
    /\ monLive' = MonitorAfterReadOut(monitor_keys, monLive, state)
    /\ phase' = "CONFIGURED"
    /\ UNCHANGED << state, it, applied >>
    /\ EvalFrame

Next ==
    \/ \E iters \in (-1)..MaxIter, n \in (-1)..MaxInst : Construct(iters, n)
    \/ Setup
    \/ \E hp \in HyperInputs(num_instances) \cup { ExtractParameters(init_state) } :
          EvalBegin(hp)
    \/ EvalFirstStep
    \/ EvalLoopStep
    \/ EvalReturn

Spec == Init /\ [][Next]_vars

\* ------------------------------------- the stand-alone HPOFitnessMonitor
\* str.capitalize on the letters the indicators are spelled with
LowerCase == << "d", "g", "h", "i", "v", "x" >>
UpperCase == << "D", "G", "H", "I", "V", "X" >>

LetterIndex(c) ==
    CHOOSE i \in 1..Len(LowerCase) : c = LowerCase[i] \/ c = UpperCase[i]

Capitalize(chars) ==
    [i \in 1..Len(chars) |->
        IF i = 1 THEN UpperCase[LetterIndex(chars[i])]
                 ELSE LowerCase[LetterIndex(chars[i])]]

Supported == { << "I", "G", "D" >>, << "H", "V" >> }

\* the values a caller hands to HPOFitnessMonitor(multi_obj_indicator)
IndicatorInputs ==
    { [type |-> "None", chars |-> << >>], [type |-> "int", chars |-> << >>] }
    \cup { [type |-> "str", chars |-> c] :
             c \in { << "I", "G", "D" >>, << "H", "V" >>, << "i", "g", "d" >>,
                     << "h", "v" >>, << "x" >> } }

\* __init__: the indicator it stores, or the failure
MonCtorAccepts(ind) ==
    /\ ind.type \in { "None", "str" }
    /\ ind.type = "str" => Capitalize(ind.chars) \in Supported

MonCtorStored(ind) ==
    IF ind.type = "str" THEN [type |-> "str", chars |-> Capitalize(ind.chars)] ELSE ind

MonFrame ==
    UNCHANGED << wfVars, monLive, wrapVars, evalVars, histVars, genVars >>

MonConstruct(ind) ==
    /\ m_phase = "NONE"
    /\ IF MonCtorAccepts(ind)
       THEN /\ m_phase' = "CONSTRUCTED"
            /\ m_indicator' = MonCtorStored(ind)
            /\ m_err' = "none"
       ELSE /\ m_err' = "ctor"
            /\ UNCHANGED << m_phase, m_indicator >>
    /\ m_arg' = ind
    /\ UNCHANGED << best_fitness, m_tells, m_single, m_minSeen, m_told, m_prevTold,
                    m_lastNdim, m_bestBefore >>
    /\ MonFrame

\* setup
MonSetup ==
    /\ m_phase = "CONSTRUCTED"
    /\ m_phase' = "READY"
    /\ best_fitness' = Inf
    /\ UNCHANGED << m_indicator, m_err, m_tells, m_single, m_minSeen, m_told, m_prevTold,
                    m_arg, m_lastNdim, m_bestBefore >>
    /\ MonFrame

\* the fitness tensors a workflow hands to pre_tell
FitVals == 0..MaxFit \cup { Inf }

FitnessInputs ==
    { [ndim |-> 1, elems |-> e] :
         e \in UNION { [1..l -> FitVals] : l \in 1..MaxVec } }
    \cup { [ndim |-> 2, elems |-> << v >>] : v \in FitVals }

SetMin(S) == CHOOSE m \in S : \A x \in S : m <= x

\* pre_tell(fitness)
MonPreTell(f) ==
    /\ m_phase = "READY"
    /\ m_tells < MaxTells
    /\ m_tells' = m_tells + 1
    /\ best_fitness' = PreTellBest(best_fitness, f)
    /\ m_single' = (m_single \/ f.ndim = 1)
    /\ m_minSeen' = IF f.ndim = 1
                    THEN SetMin({ m_minSeen } \cup { f.elems[i] : i \in 1..Len(f.elems) })
                    ELSE m_minSeen
    /\ m_lastNdim' = f.ndim
    /\ m_bestBefore' = best_fitness
    /\ UNCHANGED << m_phase, m_indicator, m_err, m_told, m_prevTold, m_arg >>
    /\ MonFrame

\* tell_fitness()
MonTellFitness ==
    /\ m_phase = "READY"
    /\ m_told' = best_fitness
    /\ m_prevTold' = m_told
    /\ UNCHANGED << m_phase, m_indicator, best_fitness, m_err, m_tells, m_single, m_minSeen,
                    m_arg, m_lastNdim, m_bestBefore >>
    /\ MonFrame

MonInit ==
    /\ wfState = [k \in { "algorithm.hp", "algorithm.pop", "monitor.best_fitness" } |->
                     CASE k = "algorithm.hp" -> 1 [] k = "algorithm.pop" -> 2 [] OTHER -> 3]
    /\ monState = [a \in { "best_fitness" } |-> 3]
    /\ monitorKind = "HPOFitnessMonitor"
    /\ hasInitStep = FALSE
    /\ monLive = MonitorStateDict(monState)
    /\ WrapperFresh
    /\ m_phase = "NONE"
    /\ MonitorFresh
    /\ GenesisOff

MonNext ==
    \/ \E ind \in IndicatorInputs : MonConstruct(ind)
    \/ MonSetup
    \/ \E f \in FitnessInputs : MonPreTell(f)
    \/ MonTellFitness

MonitorSpec == MonInit /\ [][MonNext]_vars

\* ------------------------------------- GenesisProblem and its environment
\* task_to_class: the Hover task, and one of the tasks whose class step returns
\* whatever rewards and done flags its simulation produces
Tasks == { "Hover", "GraspFixedBlock" }

\* num_envs = pop_size * num_episodes
NumEnvs == pop_size * num_episodes

Envs == 1..NumEnvs

Falses == [e \in Envs |-> FALSE]

Zeros == [e \in Envs |-> 0]

\* the rewards one env.step can return for one environment
RewardVals == { 0, 1 }

\* done_array.all()
AllDone(d) == \A e \in DOMAIN d : d[e]

\* the while condition
LoopCondInclusive(c, max_len, d) == c <= max_len /\ ~ AllDone(d)

LoopCond(c, max_len, d) == c < max_len /\ ~ AllDone(d)

\* torch.logical_or(done_array, done)
LatestDone(d, done) == done

LogicalOr(d, done) == [e \in DOMAIN d |-> d[e] \/ done[e]]

\* total_reward += reward
AddReward(total, reward) == [e \in DOMAIN total |-> total[e] + reward[e]]

\* total_reward.view(pop_size, num_episodes)
View(total, p, q) == [i \in 1..p |-> [j \in 1..q |-> total[(i - 1) * q + j]]]

\* the done vector HoverEnv.step returns
StepDoneResetBuf(self_done, self_reset_buf) == self_reset_buf

StepDone(self_done, self_reset_buf) == self_done

GenFrame ==
    UNCHANGED << wfVars, monLive, wrapVars, evalVars, histVars, monVars >>

ProblemFrame == UNCHANGED << task, pop_size, num_episodes, max_episode_length >>

HoverFrame ==
    UNCHANGED << env_done, episode_length_buf, reset_buf, time_outs >>

\* _evaluate_gene(model_state), up to the call of env.reset: the population
\* size assertion and the initial values of the locals
EvaluateGene(actual_pop_size) ==
    /\ g_pc \in { "idle", "returned", "failed" }
    /\ IF actual_pop_size = pop_size
       THEN /\ g_pc' = "reset"
            /\ done_array' = Falses
            /\ total_reward' = Zeros
       ELSE /\ g_pc' = "failed"
            /\ done_array' = << >>
            /\ total_reward' = << >>
    /\ counter' = 0
    /\ rewards' = << >>
    /\ n_reset' = 0
    /\ n_step' = 0
    /\ lastReward' = << >>
    /\ lastDone' = << >>
    /\ ProblemFrame
    /\ HoverFrame
    /\ GenFrame

\* HoverEnv.reset: reset_buf[:] = True and reset_idx of every environment
HoverReset ==
    /\ reset_buf' = [e \in Envs |-> TRUE]
    /\ episode_length_buf' = Zeros
    /\ UNCHANGED << env_done, time_outs >>

\* obs = self.env.reset()
EnvReset ==
    /\ g_pc = "reset"
    /\ n_reset' = n_reset + 1
    /\ IF task = "Hover" THEN HoverReset ELSE HoverFrame
    /\ g_pc' = "loop"
    /\ UNCHANGED << counter, done_array, total_reward, rewards, n_step,
                    lastReward, lastDone >>
    /\ ProblemFrame
    /\ GenFrame

\* the body of the loop once env.step has returned reward and done
LoopBody(reward, done) ==
    /\ done_array' = LogicalOr(done_array, done)
    /\ total_reward' = AddReward(total_reward, reward)
    /\ counter' = counter + 1
    /\ n_step' = n_step + 1
    /\ lastReward' = reward
    /\ lastDone' = done
    /\ UNCHANGED << g_pc, rewards, n_reset >>
    /\ ProblemFrame
    /\ GenFrame

\* one pass of the loop with an environment other than Hover
LoopStep(reward, done) ==
    /\ g_pc = "loop"
    /\ task # "Hover"
    /\ LoopCond(counter, max_episode_length, done_array)
    /\ LoopBody(reward, done)
    /\ HoverFrame

\* HoverEnv.step, given the crash_condition its simulation step produces: the
\* environments that time out in this step, those it resets, and the buffers
\* after reset_idx
HoverTimeOuts == [e \in Envs |-> episode_length_buf[e] + 1 > HoverEpisodeLength]

HoverResets(crash) == [e \in Envs |-> HoverTimeOuts[e] \/ crash[e]]

HoverStep(crash) ==
    /\ time_outs' = HoverTimeOuts
    /\ reset_buf' = HoverResets(crash)
    /\ episode_length_buf' =
          [e \in Envs |-> IF HoverResets(crash)[e] THEN 0 ELSE episode_length_buf[e] + 1]
    /\ UNCHANGED env_done

\* one pass of the loop with the Hover environment
LoopStepHover(reward, crash) ==
    /\ g_pc = "loop"
    /\ task = "Hover"
    /\ LoopCond(counter, max_episode_length, done_array)
    /\ HoverStep(crash)
    /\ LoopBody(reward, StepDone(env_done, reset_buf'))

\* the loop has ended: return model_state, total_reward.view(...)
GeneReturn ==
    /\ g_pc = "loop"
    /\ ~ LoopCond(counter, max_episode_length, done_array)
    /\ rewards' = View(total_reward, pop_size, num_episodes)
    /\ g_pc' = "returned"
    /\ UNCHANGED << counter, done_array, total_reward, n_reset, n_step,
                    lastReward, lastDone >>
    /\ ProblemFrame
    /\ HoverFrame
    /\ GenFrame

\* a GenesisProblem as its constructor leaves it, with its environment
GenInit ==
    /\ wfState = [k \in { "algorithm.hp", "algorithm.pop", "monitor.best_fitness" } |->
                     CASE k = "algorithm.hp" -> 1 [] k = "algorithm.pop" -> 2 [] OTHER -> 3]
    /\ monState = [a \in { "best_fitness" } |-> 3]
    /\ monitorKind = "HPOFitnessMonitor"
    /\ hasInitStep = FALSE
    /\ monLive = MonitorStateDict(monState)
    /\ WrapperFresh
    /\ MonitorOff
    /\ task \in Tasks
    /\ pop_size \in 1..MaxEnvs
    /\ num_episodes \in 1..MaxEnvs
    /\ pop_size * num_episodes <= MaxEnvs
    /\ max_episode_length \in 0..MaxEpisodeLength
    /\ g_pc = "idle"
    /\ env_done = IF task = "Hover" THEN Falses ELSE << >>
    /\ episode_length_buf = IF task = "Hover" THEN Zeros ELSE << >>
    /\ reset_buf = IF task = "Hover" THEN [e \in Envs |-> TRUE] ELSE << >>
    /\ time_outs = IF task = "Hover" THEN Falses ELSE << >>
    /\ EvaluationFresh

EnvStep ==
    \/ \E reward \in [Envs -> RewardVals], done \in [Envs -> BOOLEAN] :
          LoopStep(reward, done)
    \/ \E reward \in [Envs -> RewardVals], crash \in [Envs -> BOOLEAN] :
          LoopStepHover(reward, crash)

GenNext ==
    \/ \E actual \in { pop_size, pop_size + 1 } : EvaluateGene(actual)
    \/ EnvReset
    \/ EnvStep
    \/ GeneReturn

\* a call of _evaluate_gene that has begun runs on: it is one sequential call
GeneProgress == EnvReset \/ EnvStep \/ GeneReturn

GenesisSpec == GenInit /\ [][GenNext]_vars /\ WF_vars(GeneProgress)

\* ------------------------------------------------------------ properties
Configured == phase \in { "CONFIGURED", "FIRST", "LOOP" }

\* the last evaluate call returned a fitness
EvalSucceeded == phase = "CONFIGURED" /\ Len(applied) > 0

\* C1: every evaluate applies the first-step function once and then the
\* ordinary step iterations - 1 times, each application consuming the output
\* of the one before, and the fitness is read from the state the last
\* application produced (and from no earlier one).
C1_SequentialSteps ==
    /\ Configured =>
        /\ Len(applied) <= iterations
        /\ \A i \in 1..Len(applied) :
              /\ applied[i].slot = IF i = 1 THEN "_workflow_init_step_"
                                            ELSE "_workflow_step_"
              /\ applied[i].inp = IF i = 1 THEN startState ELSE applied[i - 1].out
    /\ phase \in { "FIRST", "LOOP" } => fitness = << >>
    /\ EvalSucceeded =>
        /\ Len(applied) = iterations
        /\ fitness = GetMonitorFitness(monitor_keys, monLive, applied[iterations].out)

C1_Witness ==
    /\ EvalSucceeded
    /\ iterations = MaxIter
    /\ applied[1].out # applied[2].out
    /\ applied[2].out # applied[3].out

\* C9: with a workflow class that defines its own init_step the first step of
\* every evaluate is the compiled init_step and the others are the ordinary
\* step; without one the first step is the very compiled step used afterwards.
C9_FirstStepSelection ==
    Configured =>
        /\ workflow_step = "step"
        /\ workflow_init_step = IF hasInitStep THEN "init_step" ELSE workflow_step
        /\ \A i \in 1..Len(applied) :
              /\ applied[i].fn = IF i = 1 /\ hasInitStep THEN "init_step" ELSE "step"
              /\ applied[i].out = VmapApply(applied[i].fn, applied[i].inp, num_instances)

C9_Witness ==
    /\ EvalSucceeded
    /\ hasInitStep
    /\ iterations >= 2
    /\ applied[1].out # VmapApply("step", applied[1].inp, num_instances)

C4_InitStateFrozen ==
    /\ Configured => init_state = setupInit
    /\ phase \in { "FIRST", "LOOP" } \/ EvalSucceeded =>
          startState = DictUpdate(setupInit, hyper)

C4_Witness ==
    /\ EvalSucceeded
    /\ startState # init_state
    /\ state # init_state
    /\ init_state = setupInit

\* C5: evaluate fails, before any step is applied and with init_state as it
\* was, exactly when some supplied key is absent from init_state, or the value
\* stored under it is no parameter, or the supplied value is no parameter.
HyperEntryBad(k) ==
    \/ k \notin DOMAIN setupInit
    \/ setupInit[k].kind # "Parameter"
    \/ hyper[k].kind # "Parameter"

C5_HyperValidation ==
    /\ Configured /\ err = "hyper" =>
        /\ \E k \in DOMAIN hyper : HyperEntryBad(k)
        /\ phase = "CONFIGURED"
        /\ applied = << >>
        /\ fitness = << >>
        /\ init_state = setupInit
    /\ phase \in { "FIRST", "LOOP" } \/ EvalSucceeded =>
        /\ \A k \in DOMAIN hyper : ~ HyperEntryBad(k)
        /\ err = "none"

C5_Witness ==
    /\ Configured /\ err = "hyper"
    /\ "algorithm.hp" \in DOMAIN hyper
    /\ hyper["algorithm.hp"].kind = "Buffer"

\* C6: a successful setup yields as many key mappings as the monitor has state
\* entries, and setup fails whenever some monitor state entry is no object of
\* the workflow's state snapshot.
Unreachable(a) == \A k \in DOMAIN wfState : wfState[k] # monState[a]

C6_ResolverCompleteness ==
    /\ Configured => Cardinality(DOMAIN monitor_keys) = Cardinality(DOMAIN monState)
    /\ (Configured \/ phase = "SETUP_FAILED")
         /\ MonitorCheck(monitorKind)
         /\ (\E a \in DOMAIN monState : Unreachable(a))
       => phase = "SETUP_FAILED" /\ err = "resolver"

\* C7: a workflow state key is mapped to a monitor attribute only if its value
\* is the very object of that monitor entry; an entry that only holds the same
\* contents is never mapped.
C7_IdentityOnly ==
    Configured =>
        \A k \in DOMAIN monitor_keys :
            /\ k \in DOMAIN wfState
            /\ monitor_keys[k] \in DOMAIN monState
            /\ wfState[k] = monState[monitor_keys[k]]

C7_Witness ==
    /\ Configured
    /\ "algorithm.shadow" \in DOMAIN wfState
    /\ wfState["algorithm.shadow"] = 5
    /\ Heap[5].val = Heap[monState["best_fitness"]].val
    /\ "algorithm.shadow" \notin DOMAIN monitor_keys

\* C10 as stated: setup accepts every monitor that exposes tell_fitness and
\* rejects every other one, having done nothing when it rejects.
SetupRan == Configured \/ phase = "SETUP_FAILED"

RejectedMonitor == phase = "SETUP_FAILED" /\ err = "monitor"

NothingDone ==
    /\ init_state = NoState
    /\ monitor_keys = NoState
    /\ workflow_step = "none"
    /\ workflow_init_step = "none"
    /\ traced = {}
    /\ compiled = {}
    /\ monLive = MonitorStateDict(monState)

C10_Original ==
    SetupRan =>
        /\ RejectedMonitor <=> ~ ExposesTellFitness(monitorKind)
        /\ RejectedMonitor => NothingDone

\* C10: setup passes the monitor check exactly for an instance of HPOMonitor;
\* a monitor that only exposes tell_fitness is rejected like any other; when
\* setup rejects the monitor it has resolved, traced, batched and compiled
\* nothing and the wrapper has no init_state.
C10_MonitorCheck ==
    SetupRan =>
        /\ RejectedMonitor <=> ~ IsHPOMonitor(monitorKind)
        /\ RejectedMonitor => NothingDone

C10_Witness ==
    /\ RejectedMonitor
    /\ monitorKind = "DuckMonitor"
    /\ workflow_attr

\* C2: the fitness of instance j does not change when only another instance's
\* hyperparameter changes, and it is the fitness a one-instance wrapper
\* returns for j's hyperparameter.
HyperOf(hp, n) ==
    IF "algorithm.hp" \in DOMAIN hp THEN hp["algorithm.hp"].val
    ELSE [i \in 1..n |-> Heap[wfState["algorithm.hp"]].val]

HyperWith(v) == ("algorithm.hp" :> [kind |-> "Parameter", val |-> v])

C2_BatchIndependence ==
    EvalSucceeded =>
        \A j \in 1..Min2(num_instances, Len(fitness)) :
            LET hps == HyperOf(hyper, num_instances)
            IN  /\ \A i \in (1..num_instances) \ { j } : \A v \in 1..MaxHP :
                      EvaluateFn(wfState, monLive, hasInitStep, iterations,
                                 num_instances,
                                 HyperWith([hps EXCEPT ![i] = v]))[j] = fitness[j]
                /\ EvaluateFn(wfState, monLive, hasInitStep, iterations, 1,
                              HyperWith(<< hps[j] >>))[1] = fitness[j]

C2_Witness ==
    /\ EvalSucceeded
    /\ num_instances = MaxInst
    /\ Len(fitness) = num_instances
    /\ iterations >= 2
    /\ "algorithm.hp" \in DOMAIN hyper
    /\ hyper["algorithm.hp"].val[1] # hyper["algorithm.hp"].val[2]
    /\ fitness[1] # fitness[2]

\* C8 as stated: tell_fitness never increases from one call to the next, and
\* after the first single-objective pre_tell it is finite and at most the
\* least element seen.
C8_Original ==
    m_phase = "READY" =>
        /\ m_told <= m_prevTold
        /\ best_fitness <= m_told
        /\ m_single => best_fitness # Inf /\ best_fitness <= m_minSeen

\* C8: tell_fitness never increases from one call to the next, and after the
\* first single-objective pre_tell it is the least element seen so far, finite
\* exactly when that element is.
C8_MonotonicBest ==
    m_phase = "READY" =>
        /\ m_told <= m_prevTold
        /\ best_fitness <= m_told
        /\ m_single => best_fitness = m_minSeen
        /\ m_single /\ m_minSeen # Inf => best_fitness # Inf

C8_Witness ==
    /\ m_phase = "READY"
    /\ m_single
    /\ m_tells >= 2
    /\ m_told < m_prevTold
    /\ m_prevTold # Inf
    /\ best_fitness < m_told

\* the last evaluate call passed the hyperparameter check
EvalStarted == phase \in { "FIRST", "LOOP" } \/ EvalSucceeded

\* C11: the state handed to the first step of an evaluate call has exactly the
\* keys of the stored init_state; under a supplied hyperparameter key it holds
\* the supplied value and under every other key the value init_state holds.
C11_OverwriteFrame ==
    EvalStarted =>
        /\ DOMAIN startState = DOMAIN init_state
        /\ \A k \in DOMAIN startState :
              /\ k \in DOMAIN hyper => startState[k] = hyper[k]
              /\ k \notin DOMAIN hyper => startState[k] = init_state[k]
        /\ Len(applied) > 0 => applied[1].inp = startState

C11_Witness ==
    /\ EvalStarted
    /\ Len(applied) > 0
    /\ "algorithm.hp" \in DOMAIN hyper
    /\ hyper["algorithm.hp"] # init_state["algorithm.hp"]
    /\ startState["algorithm.pop"] = init_state["algorithm.pop"]
    /\ Cardinality(DOMAIN init_state) > Cardinality(DOMAIN hyper)

ExactlyParameters(p, st) ==
    /\ DOMAIN p = { k \in DOMAIN st : st[k].kind = "Parameter" }
    /\ \A k \in DOMAIN p : p[k] = st[k]
    /\ \A k \in DOMAIN st : st[k].kind = "Buffer" => k \notin DOMAIN p

C13_ExtractParameters ==
    Configured =>
        /\ \A st \in { init_state, state, startState } :
              ExactlyParameters(ExtractParameters(st), st)
        /\ \A k \in DOMAIN ExtractParameters(init_state) :
              /\ k \in DOMAIN init_state
              /\ init_state[k].kind = "Parameter"
              /\ ExtractParameters(init_state)[k].kind = "Parameter"
        /\ hyper = ExtractParameters(init_state) => err # "hyper"

C13_Witness ==
    /\ EvalSucceeded
    /\ hyper = ExtractParameters(init_state)
    /\ hyper # << >>
    /\ \E k \in DOMAIN init_state : init_state[k].kind = "Buffer"
    /\ state # init_state
    /\ ExtractParameters(state) = hyper

\* C14: HPOProblemWrapper(iterations, num_instances) fails when iterations <= 0
\* or num_instances <= 0 and otherwise stores both values as given; a
\* configured wrapper has iterations >= 1 and num_instances >= 1.
C14_CtorValidation ==
    /\ ctor_args # << >> =>
          LET iters == ctor_args[1]
              n == ctor_args[2]
          IN  /\ iters <= 0 \/ n <= 0 => phase = "NONE" /\ err = "ctor"
              /\ iters > 0 /\ n > 0 =>
                    /\ phase # "NONE"
                    /\ err # "ctor"
                    /\ iterations = iters
                    /\ num_instances = n
    /\ Configured => iterations >= 1 /\ num_instances >= 1

C14_Witness ==
    /\ phase = "NONE"
    /\ err = "ctor"
    /\ ctor_args = << MaxIter, 0 >>
    /\ ~ workflow_attr

\* C15: HPOFitnessMonitor(multi_obj_indicator) succeeds, storing the indicator,
\* when the argument is None, "IGD" or "HV", and fails for every other string
\* and for every value that is no string.
IndicatorSupported(ind) ==
    \/ ind.type = "None"
    \/ ind.type = "str" /\ ind.chars \in Supported

C15_IndicatorSupport ==
    m_arg # NoArg =>
        /\ m_err = "ctor" <=> ~ IndicatorSupported(m_arg)
        /\ IndicatorSupported(m_arg) =>
              /\ m_phase \in { "CONSTRUCTED", "READY" }
              /\ m_indicator = m_arg

\* C16: after setup, as long as no single-objective pre_tell has happened,
\* best_fitness and what tell_fitness returns are +infinity; a pre_tell with a
\* fitness of ndim other than 1 leaves best_fitness as it found it.
C16_MultiObjectivePlaceholder ==
    m_phase = "READY" =>
        /\ ~ m_single => best_fitness = Inf /\ m_told = Inf
        /\ m_tells > 0 /\ m_lastNdim # 1 => best_fitness = m_bestBefore

C16_Witness ==
    /\ m_phase = "READY"
    /\ m_single
    /\ m_tells >= 2
    /\ m_lastNdim = 2
    /\ m_bestBefore # Inf
    /\ m_bestBefore > 0
    /\ m_told = best_fitness

\* C17: when setup's resolver assertion has passed, the monitor key map is a
\* one-to-one correspondence between a set of workflow state keys and all the
\* monitor state entries: every entry is the target of exactly one key.
C17_ResolverOneToOne ==
    Configured =>
        /\ \A a \in DOMAIN monState :
              Cardinality({ k \in DOMAIN monitor_keys : monitor_keys[k] = a }) = 1
        /\ \A k \in DOMAIN monitor_keys : monitor_keys[k] \in DOMAIN monState

\* the evaluation has passed the population size assertion
GeneRunning == g_pc \in { "reset", "loop", "returned" }

\* C18: an evaluation calls env.reset exactly once, before any env.step, then
\* calls env.step at most max_episode_length times (never when that is 0),
\* whatever the environment returns, and it returns.
C18_Protocol ==
    /\ g_pc = "reset" => n_reset = 0 /\ n_step = 0
    /\ g_pc \in { "loop", "returned" } => n_reset = 1
    /\ GeneRunning =>
          /\ n_step = counter
          /\ n_step <= max_episode_length
          /\ max_episode_length = 0 => n_step = 0

C18_EvaluationTerminates ==
    /\ []C18_Protocol
    /\ (g_pc \in { "reset", "loop" }) ~> (g_pc = "returned")

C18_Witness ==
    /\ g_pc = "returned"
    /\ task # "Hover"
    /\ n_reset = 1
    /\ max_episode_length = MaxEpisodeLength
    /\ n_step = max_episode_length
    /\ \E e \in Envs : done_array[e]
    /\ rewards = View(total_reward, pop_size, num_episodes)

\* C19: in every env.step of an evaluation, an environment's done_array
\* entry that is true stays true whatever the step reports, and becomes true
\* when the step reports done; the step is made only while some entry is
\* false; and each environment's reward is added to its total, also for an
\* environment already marked done.
EnvStepMade == n_step' = n_step + 1

C19_StepEffect ==
    EnvStepMade =>
        /\ \A e \in Envs : done_array'[e] <=> (done_array[e] \/ lastDone'[e])
        /\ ~ AllDone(done_array)
        /\ \A e \in Envs : total_reward'[e] = total_reward[e] + lastReward'[e]

C19_DoneMonotone == [][C19_StepEffect]_vars

C19_Witness ==
    /\ g_pc = "loop"
    /\ task # "Hover"
    /\ n_step >= 2
    /\ \E e \in Envs :
          /\ done_array[e]
          /\ ~ lastDone[e]
          /\ lastReward[e] = 1
          /\ total_reward[e] = n_step

\* C20: the done vector HoverEnv.step returns is false for every environment
\* in every state, also in steps that reset crashed or timed-out
\* environments; an evaluation on the Hover task never leaves the loop early
\* and makes exactly max_episode_length env.step calls.
C20_HoverNeverDone ==
    task = "Hover" =>
        /\ env_done = Falses
        /\ GeneRunning =>
              /\ n_step > 0 => lastDone = Falses
              /\ done_array = Falses
        /\ g_pc = "loop" /\ counter < max_episode_length =>
              LoopCond(counter, max_episode_length, done_array)
        /\ g_pc = "returned" => n_step = max_episode_length

C20_Witness ==
    /\ task = "Hover"
    /\ g_pc = "returned"
    /\ NumEnvs = MaxEnvs
    /\ max_episode_length = MaxEpisodeLength
    /\ n_step = max_episode_length
    /\ \E e \in Envs : time_outs[e] /\ reset_buf[e] /\ episode_length_buf[e] = 0
    /\ \E e \in Envs : reset_buf[e] /\ ~ time_outs[e] /\ episode_length_buf[e] = 0
    /\ lastDone = Falses

====
